---- MODULE Spec2Model ----
(***************************************************************************)
(* light-watcher-pi3: a Telegram bot that infers mains-power outages from  *)
(* gaps in its own heartbeat.  Model of src/main.rs and src/redis.rs.      *)
(*                                                                         *)
(* Instants and durations are whole seconds.  The wall clock moves on a    *)
(* grid of ClockSteps so that sub-minute, one-minute and five-minute gaps  *)
(* all occur.  The process is modelled through its lifetime: start, the    *)
(* three clock/store reads of report_power_off_time, the report, the       *)
(* concurrent phase (dispatcher + update_up_time) and power loss.          *)
(***************************************************************************)
EXTENDS Integers, Sequences, FiniteSets, TLC

\* ------------------------------------------------------------------ bounds
\* Largest wall-clock instant explored (seconds).
MaxTime == 360
\* Largest instant explored while the dispatcher also receives traffic.
BotHorizon == 120

\* ------------------------------------------------------- program constants
\* chrono::Duration::minutes(1), in seconds.
Minute == 60
\* std::time::Duration::from_secs(60) of update_up_time.
SleepSecs == 60
\* env.admin_user_id (configuration).
admin_user_id == 1

POWER_ON_TIME_KEY == "power_on_time"
WAKE_UP_TIME_KEY == "wake_up_time"

\* Amounts by which the wall clock is observed to move between two steps.
ClockSteps == {30, Minute, 5 * Minute}

\* Telegram user ids explored: the administrator and one other user.
Users == {admin_user_id, 2}
\* msg.from() is None for messages without a sender (channel posts).
NoSender == 0
Senders == Users \cup {NoSender}

\* user_id.to_string(): the store key of a user's approval flag.
UserKey(u) == ToString(u)
Keys == {POWER_ON_TIME_KEY, WAKE_UP_TIME_KEY} \cup {UserKey(u) : u \in Users}

\* ---------------------------------------------------------- store values
\* A Redis value: nil, or a string.  Strings written by this program are
\* either an approval token or an RFC 3339 timestamp (local time + offset).
Nil == [kind |-> "nil", local |-> 0, offset |-> 0]
Token(s) == [kind |-> s, local |-> 0, offset |-> 0]
\* Faulty variant: the instant is rendered with a +01:00 suffix but not shifted.
ToRfc3339_LocalOffset(t) == [kind |-> "rfc3339", local |-> t, offset |-> 3600]
\* DateTime<Utc>::to_rfc3339: UTC instant rendered with offset +00:00.
ToRfc3339(t) == [kind |-> "rfc3339", local |-> t, offset |-> 0]
\* parse_from_rfc3339 succeeds only on a timestamp string.
ParsesAsRfc3339(v) == v.kind = "rfc3339"
\* naive_utc() of the parsed fixed-offset value, re-tagged as UTC.
FromRfc3339(v) == v.local - v.offset

\* Results: Ok(x) / Err.
Ok(x) == [ok |-> TRUE, val |-> x]
Err == [ok |-> FALSE, val |-> 0]

\* RedisClient::get: connection, GET as String (nil is an error), parse.
Get(st, key, conn) ==
    IF ~conn THEN Err
    ELSE IF st[key] = Nil THEN Err
    ELSE IF ~ParsesAsRfc3339(st[key]) THEN Err
    ELSE Ok(FromRfc3339(st[key]))

\* RedisClient::set: on a connection failure nothing is written.
Set(st, key, value, conn) ==
    IF conn THEN [st EXCEPT ![key] = ToRfc3339(value)] ELSE st

\* RedisClient::verify_approval: Err on connection failure, else
\* value == Some("approved").
verify_approval(st, user_id, conn) ==
    IF ~conn THEN Err ELSE Ok(st[UserKey(user_id)] = Token("approved"))

\* RedisClient::manage_user.
manage_user(st, user_id, value, conn) ==
    IF conn THEN [st EXCEPT ![UserKey(user_id)] = Token(value)] ELSE st

\* Faulty variant: the token written is not the one verify_approval compares with.
approve_user_Typo(st, user_id, conn) == manage_user(st, user_id, "approve", conn)
approve_user(st, user_id, conn) == manage_user(st, user_id, "approved", conn)
disapprove_user(st, user_id, conn) == manage_user(st, user_id, "disapproved", conn)

\* ------------------------------------------------------ duration_formatter
\* Rust integer division and remainder truncate towards zero.
TruncDiv(a, b) == IF a >= 0 THEN a \div b ELSE -((-a) \div b)
TruncRem(a, b) == a - b * TruncDiv(a, b)

num_days(d) == TruncDiv(d, 86400)
num_hours(d) == TruncDiv(d, 3600)
num_minutes(d) == TruncDiv(d, 60)
num_seconds(d) == d

\* Faulty variant: a component that is zero is written too.
Push_Zero(n, unit) == IF n >= 0 THEN <<<<n, unit>>>> ELSE <<>>
\* Lines 243-257: `if n > 0 { result.push_str(...) }`.
Push(n, unit) == IF n > 0 THEN <<<<n, unit>>>> ELSE <<>>

\* The string built by duration_formatter, as the sequence of its
\* "<N> <unit> " pieces.
duration_formatter(d) ==
    Push(num_days(d), "days")
        \o Push(TruncRem(num_hours(d), 24), "hours")
        \o Push(TruncRem(num_minutes(d), 60), "minutes")
        \o Push(TruncRem(num_seconds(d), 60), "seconds")

\* format!("{} <unit> ", n): the characters of one piece.
Piece(p) == ToString(p[1]) \o " " \o p[2] \o " "
\* The characters of the string whose pieces are ps.
RECURSIVE Chars(_)
Chars(ps) == IF ps = <<>> THEN "" ELSE Piece(Head(ps)) \o Chars(Tail(ps))

\* ------------------------------------------------------------------- state
VARIABLES
    now,           \* chrono::Utc::now(): the wall clock
    slept,         \* monotonic time elapsed in update_up_time's current sleep
    store,         \* the Redis keyspace: key -> value
    pc,            \* position of the process (main)
    stored_time,   \* report_power_off_time local
    wake_up_time,  \* report_power_off_time local
    current_time,  \* report_power_off_time local
    msg,           \* the inbound message the last program step handled
    route,         \* the endpoint the dispatcher chose for msg
    out,           \* the message the last program step handed to bot.send_message
    res,           \* result of the function the last program step ended
    just_ran,      \* history: report_power_off_time has returned Ok and since
                   \* then no heartbeat was written, the clock did not move
                   \* and the store was not reset
    span,          \* duration_formatter called on its own: the argument
    text           \* duration_formatter called on its own: the result

vars == <<now, slept, store, pc, stored_time, wake_up_time, current_time,
          msg, route, out, res, just_ran, span, text>>

\* Locals of report_power_off_time (lines 111-113), over the state.
time_until_wake_up == current_time - wake_up_time
time_off == current_time - stored_time
\* Faulty variant: the off-time is not subtracted.
time_light_was_on_NoSub == time_until_wake_up
time_light_was_on == time_until_wake_up - time_off

\* Outgoing messages.
NoOut == [kind |-> "none", off |-> <<>>, on |-> <<>>, user |-> 0]
\* "Less than 1 minute bot outage. ... The power was on for {}"
BriefReport(on) == [kind |-> "brief", off |-> <<>>, on |-> on, user |-> 0]
\* "The power was off for {}.\nThe power was on for {}"
FullReport(off, on) == [kind |-> "full", off |-> off, on |-> on, user |-> 0]
\* "You are not entitled to use this command"
Refusal == [kind |-> "refusal", off |-> <<>>, on |-> <<>>, user |-> 0]
\* "Light is on for {}"
StatusReply(on) == [kind |-> "status", off |-> <<>>, on |-> on, user |-> 0]
ApprovedAck == [kind |-> "approved_ack", off |-> <<>>, on |-> <<>>, user |-> 0]
DisapprovedAck == [kind |-> "disapproved_ack", off |-> <<>>, on |-> <<>>, user |-> 0]
\* "Forwarded from {user.id}"
ForwardedFrom(u) == [kind |-> "forwarded_from", off |-> <<>>, on |-> <<>>, user |-> u]
\* "Can't get user id, ask user directly"
CantGetUser == [kind |-> "cant_get_user", off |-> <<>>, on |-> <<>>, user |-> 0]

\* Inbound messages: sender, command, command argument / forward origin,
\* forward metadata, send instant.
NoMsg == [sender |-> NoSender, cmd |-> "none", target |-> 0, fwd |-> "none", date |-> 0]
StatusMsg(s, d) == [sender |-> s, cmd |-> "status", target |-> 0, fwd |-> "none", date |-> d]
AdminMsg(s, c, t, d) == [sender |-> s, cmd |-> c, target |-> t, fwd |-> "none", date |-> d]
FwdUserMsg(s, t, d) == [sender |-> s, cmd |-> "none", target |-> t, fwd |-> "user", date |-> d]
FwdHiddenMsg(s, d) == [sender |-> s, cmd |-> "none", target |-> 0, fwd |-> "hidden", date |-> d]
PlainMsg(s, d) == [sender |-> s, cmd |-> "none", target |-> 0, fwd |-> "none", date |-> d]

\* Ages of inbound messages at the moment they are handled (seconds).
Ages == {0, Minute, Minute + 30}

Messages(t) ==
    {StatusMsg(s, t - a) : s \in Senders, a \in Ages}
        \cup {AdminMsg(s, c, u, t) : s \in Senders, c \in {"approve", "disapprove"}, u \in Users}
        \cup {FwdUserMsg(s, u, t) : s \in Senders, u \in Users}
        \cup {FwdHiddenMsg(s, t) : s \in Senders}
        \cup {PlainMsg(s, t) : s \in Senders}

EmptyStore == [k \in Keys |-> Nil]

Init ==
    /\ now = 0
    /\ slept = 0
    /\ store = EmptyStore
    /\ pc = "down"
    /\ stored_time = 0
    /\ wake_up_time = 0
    /\ current_time = 0
    /\ msg = NoMsg
    /\ route = "none"
    /\ out = NoOut
    /\ res = "none"
    /\ just_ran = FALSE
    /\ span = 0
    /\ text = ""

\* ------------------------------------------------------------ environment
\* A function return and the statement after it are one instant: the
\* environment is observed to change before or after, not in between.
AtReturn == pc \in {"returned", "aborted"} \/ route # "none"

\* The wall clock moves forward.  While update_up_time sleeps, time does
\* not pass the end of the sleep without the loop body running.
Advance(d, horizon) ==
    /\ ~AtReturn
    /\ now + d <= horizon
    /\ pc = "running" => slept + d <= SleepSecs
    /\ now' = now + d
    /\ slept' = IF pc = "running" THEN slept + d ELSE slept
    /\ just_ran' = FALSE
    /\ UNCHANGED <<store, pc, stored_time, wake_up_time, current_time, msg, route, out, res, span, text>>

\* Time passes without end: as Advance, but the bounded wall clock starts
\* over from 0 when it would pass the horizon (update_up_time sleeps on the
\* monotonic timer, which is not affected).
Elapse(d, horizon) ==
    /\ ~AtReturn
    /\ pc = "running" => slept + d <= SleepSecs
    /\ now' = IF now + d <= horizon THEN now + d ELSE 0
    /\ slept' = IF pc = "running" THEN slept + d ELSE slept
    /\ just_ran' = FALSE
    /\ UNCHANGED <<store, pc, stored_time, wake_up_time, current_time, msg, route, out, res, span, text>>

\* The wall clock is set back (no RTC on the board; NTP correction).
ClockBack(d) ==
    /\ pc \in {"down", "running"}
    /\ ~AtReturn
    /\ now - d >= 0
    /\ now' = now - d
    /\ just_ran' = FALSE
    /\ UNCHANGED <<slept, store, pc, stored_time, wake_up_time, current_time, msg, route, out, res, span, text>>

\* The store is reset externally.
Flush ==
    /\ pc \in {"down", "running"}
    /\ ~AtReturn
    /\ store # EmptyStore
    /\ store' = EmptyStore
    /\ just_ran' = FALSE
    /\ UNCHANGED <<now, slept, pc, stored_time, wake_up_time, current_time, msg, route, out, res, span, text>>

\* Power is lost (or the process is killed): all process state is gone.
Crash ==
    /\ pc # "down"
    /\ ~AtReturn
    /\ pc' = "down"
    /\ slept' = 0
    /\ stored_time' = 0
    /\ wake_up_time' = 0
    /\ current_time' = 0
    /\ msg' = NoMsg
    /\ route' = "none"
    /\ out' = NoOut
    /\ res' = "none"
    /\ UNCHANGED <<now, store, just_ran, span, text>>

\* ---------------------------------------------------------------- startup
\* main up to the call of report_power_off_time (line 81).
Start ==
    /\ pc = "down"
    /\ pc' = "get_stored"
    /\ slept' = 0
    /\ stored_time' = 0
    /\ wake_up_time' = 0
    /\ current_time' = 0
    /\ msg' = NoMsg
    /\ route' = "none"
    /\ out' = NoOut
    /\ res' = "none"
    /\ UNCHANGED <<now, store, just_ran, span, text>>

\* unwrap_or_else(|_| chrono::Utc::now())
UnwrapOrNow(r, t) == IF r.ok THEN r.val ELSE t

\* Lines 103-105.
ReadStoredTime(conn) ==
    /\ pc = "get_stored"
    /\ stored_time' = UnwrapOrNow(Get(store, POWER_ON_TIME_KEY, conn), now)
    /\ pc' = "get_wake"
    /\ UNCHANGED <<now, slept, store, wake_up_time, current_time, msg, route, out, res, just_ran, span, text>>

\* Lines 106-108.
ReadWakeUpTime(conn) ==
    /\ pc = "get_wake"
    /\ wake_up_time' = UnwrapOrNow(Get(store, WAKE_UP_TIME_KEY, conn), now)
    /\ pc' = "report"
    /\ UNCHANGED <<now, slept, store, stored_time, current_time, msg, route, out, res, just_ran, span, text>>

\* Faulty variant: the threshold is one second instead of one minute.
IsBriefRestart_Seconds(off) == off # 0 /\ off < 1
\* Line 115: the brief-restart test.
IsBriefRestart(off) == off # 0 /\ off < Minute

\* Lines 110-139: read the clock, compute, report, update wake_up_time.
ReportPowerOffTime(sendOk, conn) ==
    /\ pc = "report"
    /\ current_time' = now
    /\ UNCHANGED <<stored_time, wake_up_time>>
    /\ IF IsBriefRestart(time_off')
       THEN /\ out' = BriefReport(duration_formatter(time_light_was_on'))
            /\ store' = store
            /\ res' = IF sendOk THEN "ok" ELSE "err"
       ELSE /\ out' = FullReport(duration_formatter(time_off'),
                                 duration_formatter(time_light_was_on'))
            /\ store' = IF sendOk THEN Set(store, WAKE_UP_TIME_KEY, current_time', conn)
                        ELSE store
            /\ res' = IF sendOk /\ conn THEN "ok" ELSE "err"
    /\ pc' = IF res' = "ok" THEN "returned" ELSE "aborted"
    /\ just_ran' = (res' = "ok")
    /\ UNCHANGED <<now, slept, msg, route, span, text>>

\* Faulty variant: the dispatcher and update_up_time are started without
\* awaiting report_power_off_time.
Launch_NotAwaited ==
    /\ pc \in {"report", "returned"}
    /\ pc' = "running"
    /\ slept' = 0
    /\ stored_time' = 0
    /\ wake_up_time' = 0
    /\ current_time' = 0
    /\ out' = NoOut
    /\ res' = "none"
    /\ UNCHANGED <<now, store, msg, route, just_ran, span, text>>
\* main line 81, Ok: lines 83-93 build the dispatcher and join it with
\* update_up_time.
Launch ==
    /\ pc = "returned"
    /\ pc' = "running"
    /\ slept' = 0
    /\ stored_time' = 0
    /\ wake_up_time' = 0
    /\ current_time' = 0
    /\ out' = NoOut
    /\ res' = "none"
    /\ UNCHANGED <<now, store, msg, route, just_ran, span, text>>

\* Faulty variant: the reconciler's error is dropped and main goes on to the
\* dispatcher and update_up_time.
Exit_ErrorDropped ==
    /\ pc = "aborted"
    /\ pc' = "running"
    /\ stored_time' = 0
    /\ wake_up_time' = 0
    /\ current_time' = 0
    /\ out' = NoOut
    /\ res' = "none"
    /\ UNCHANGED <<now, slept, store, msg, route, just_ran, span, text>>
\* main line 81, Err: `?` returns the error from main, the process exits.
Exit ==
    /\ pc = "aborted"
    /\ pc' = "down"
    /\ stored_time' = 0
    /\ wake_up_time' = 0
    /\ current_time' = 0
    /\ out' = NoOut
    /\ res' = "none"
    /\ UNCHANGED <<now, slept, store, msg, route, just_ran, span, text>>

\* ------------------------------------------------------- concurrent phase
\* Faulty variant: the error of the write is propagated with `?`, which ends
\* the loop.
update_up_time_Propagates(conn) ==
    /\ pc = "running"
    /\ slept = SleepSecs
    /\ store' = Set(store, POWER_ON_TIME_KEY, now, conn)
    /\ slept' = 0
    /\ msg' = NoMsg
    /\ route' = "none"
    /\ out' = NoOut
    /\ res' = IF conn THEN "ok" ELSE "err"
    /\ just_ran' = (just_ran /\ ~conn)
    /\ pc' = IF conn THEN pc ELSE "aborted"
    /\ UNCHANGED <<now, stored_time, wake_up_time, current_time, span, text>>
\* Faulty variant: the loop writes under WAKE_UP_TIME_KEY.
update_up_time_WrongKey(conn) ==
    /\ pc = "running"
    /\ slept = SleepSecs
    /\ store' = Set(store, WAKE_UP_TIME_KEY, now, conn)
    /\ slept' = 0
    /\ msg' = NoMsg
    /\ route' = "none"
    /\ out' = NoOut
    /\ res' = IF conn THEN "ok" ELSE "err"
    /\ just_ran' = (just_ran /\ ~conn)
    /\ UNCHANGED <<now, pc, stored_time, wake_up_time, current_time, span, text>>
\* update_up_time: one iteration of the loop, after its sleep has elapsed.
update_up_time(conn) ==
    /\ pc = "running"
    /\ slept = SleepSecs
    /\ store' = Set(store, POWER_ON_TIME_KEY, now, conn)
    /\ slept' = 0
    /\ msg' = NoMsg
    /\ route' = "none"
    /\ out' = NoOut
    /\ res' = IF conn THEN "ok" ELSE "err"
    /\ just_ran' = (just_ran /\ ~conn)
    /\ UNCHANGED <<now, pc, stored_time, wake_up_time, current_time, span, text>>

\* The is_admin filter (lines 50-55).
is_admin(m) == m.sender # NoSender /\ m.sender = admin_user_id

\* Faulty variant: the admin branch lacks its .filter(is_admin).
Route_NoAdminFilter(m) ==
    IF m.cmd = "status" THEN "handler"
    ELSE IF m.cmd \in {"approve", "disapprove"} THEN "admin_handler"
    ELSE IF m.fwd # "none" /\ is_admin(m) THEN "forward_handler"
    ELSE "unhandled"
\* The dptree of main (lines 57-77): first matching branch wins.
Route(m) ==
    IF m.cmd = "status" THEN "handler"
    ELSE IF m.cmd \in {"approve", "disapprove"} /\ is_admin(m) THEN "admin_handler"
    ELSE IF m.fwd # "none" /\ is_admin(m) THEN "forward_handler"
    ELSE "unhandled"

\* What running an endpoint leaves behind: the message it handed to
\* bot.send_message (NoOut if none), its result and the store.
Outcome(o, r, st) == [out |-> o, res |-> r, store |-> st]
Sent(o, sendOk, st) == Outcome(o, IF sendOk THEN "ok" ELSE "err", st)

\* Line 186: the permission check, given Ok(approved) from verify_approval.
Refused(approved, user_id) == ~approved /\ user_id # admin_user_id

\* Faulty variant: the age limit is one hour instead of one minute.
IsStale_Hour(time, msg_time) == time - msg_time > 60 * Minute
\* Line 201: the message is older than one minute.
IsStale(time, msg_time) == time - msg_time > Minute

\* Lines 196-217: BotCommand::Status.
status(st, m, time, getConn, sendOk) ==
    IF IsStale(time, m.date) THEN Outcome(NoOut, "ok", st)
    ELSE LET r == Get(st, WAKE_UP_TIME_KEY, getConn)
             wake == IF r.ok THEN r.val ELSE time
             off == time - wake
         IN  IF off = 0 THEN Outcome(NoOut, "ok", st)
             ELSE Sent(StatusReply(duration_formatter(off)), sendOk, st)

\* handler (lines 180-220).
handler(st, m, time, verifyConn, getConn, sendOk) ==
    IF m.sender = NoSender THEN Outcome(NoOut, "err", st)
    ELSE LET approval == verify_approval(st, m.sender, verifyConn)
         IN  IF ~approval.ok THEN Outcome(NoOut, "err", st)
             ELSE IF Refused(approval.val, m.sender) THEN Sent(Refusal, sendOk, st)
             ELSE status(st, m, time, getConn, sendOk)

\* admin_handler (lines 156-178).
admin_handler(st, m, conn, sendOk) ==
    IF ~conn THEN Outcome(NoOut, "err", st)
    ELSE IF m.cmd = "approve"
         THEN Sent(ApprovedAck, sendOk, approve_user(st, m.target, conn))
         ELSE Sent(DisapprovedAck, sendOk, disapprove_user(st, m.target, conn))

\* forward_handler (lines 222-238).
forward_handler(st, m, sendOk) ==
    IF m.fwd = "user" THEN Sent(ForwardedFrom(m.target), sendOk, st)
    ELSE Sent(CantGetUser, sendOk, st)

\* The dispatcher hands one inbound message to the endpoint it matches.
Dispatch(m, conn1, conn2, sendOk) ==
    /\ pc = "running"
    /\ route = "none"
    /\ msg' = m
    /\ route' = Route(m)
    /\ LET r == CASE route' = "handler" -> handler(store, m, now, conn1, conn2, sendOk)
                  [] route' = "admin_handler" -> admin_handler(store, m, conn1, sendOk)
                  [] route' = "forward_handler" -> forward_handler(store, m, sendOk)
                  [] OTHER -> Outcome(NoOut, "none", store)
       IN  /\ out' = r.out
           /\ res' = r.res
           /\ store' = r.store
    /\ UNCHANGED <<now, slept, pc, stored_time, wake_up_time, current_time, just_ran, span, text>>

\* Faulty variant: an Err of the endpoint ends the dispatcher and with it
\* the process.
Handled_ErrorStops ==
    /\ pc = "running"
    /\ route # "none"
    /\ msg' = NoMsg
    /\ route' = "none"
    /\ out' = NoOut
    /\ res' = "none"
    /\ pc' = IF res = "err" THEN "aborted" ELSE pc
    /\ UNCHANGED <<now, slept, store, stored_time, wake_up_time, current_time, just_ran, span, text>>
\* The endpoint has returned: the dispatcher logs an Err and goes on to
\* the next update (main line 91).
Handled ==
    /\ pc = "running"
    /\ route # "none"
    /\ msg' = NoMsg
    /\ route' = "none"
    /\ out' = NoOut
    /\ res' = "none"
    /\ UNCHANGED <<now, slept, store, pc, stored_time, wake_up_time, current_time, just_ran, span, text>>

\* ---------------------------------------------------------- specifications
Lifecycle ==
    \/ Start
    \/ \E conn \in BOOLEAN : ReadStoredTime(conn)
    \/ \E conn \in BOOLEAN : ReadWakeUpTime(conn)
    \/ \E sendOk \in BOOLEAN, conn \in BOOLEAN : ReportPowerOffTime(sendOk, conn)
    \/ Launch
    \/ Exit
    \/ \E conn \in BOOLEAN : update_up_time(conn)
    \/ Crash
    \/ \E d \in ClockSteps : ClockBack(d)
    \/ Flush

\* The whole bot, with inbound traffic, over a short horizon.
Next ==
    \/ Lifecycle
    \/ \E d \in ClockSteps : Advance(d, BotHorizon)
    \/ \E m \in Messages(now), conn1 \in BOOLEAN, conn2 \in BOOLEAN, sendOk \in BOOLEAN :
           Dispatch(m, conn1, conn2, sendOk)
    \/ Handled

Spec == Init /\ [][Next]_vars

\* Restarts and heartbeats without inbound traffic, over a long horizon.
NextOutage ==
    \/ Lifecycle
    \/ \E d \in ClockSteps : Advance(d, MaxTime)

SpecOutage == Init /\ [][NextOutage]_vars

\* Normal operation: power losses and restarts, but the wall clock only
\* moves forward, the store is never emptied and every store operation
\* succeeds.
NextNormal ==
    \/ Start
    \/ ReadStoredTime(TRUE)
    \/ ReadWakeUpTime(TRUE)
    \/ \E sendOk \in BOOLEAN : ReportPowerOffTime(sendOk, TRUE)
    \/ Launch
    \/ Exit
    \/ update_up_time(TRUE)
    \/ Crash
    \/ \E d \in ClockSteps : Advance(d, MaxTime)

SpecNormal == Init /\ [][NextNormal]_vars

\* duration_formatter on its own.  The spans it is given are made of these
\* components.
MaxDays == 2
SpanHours == {0, 1, 23}
SpanMinutes == {0, 1, 30, 59}
SpanSeconds == {0, 1, 59}
Spans ==
    {((d * 24 + h) * 60 + m) * 60 + s :
        d \in 0..MaxDays, h \in SpanHours, m \in SpanMinutes, s \in SpanSeconds}

InitFormat ==
    /\ now = 0
    /\ slept = 0
    /\ store = EmptyStore
    /\ pc = "format"
    /\ stored_time = 0
    /\ wake_up_time = 0
    /\ current_time = 0
    /\ msg = NoMsg
    /\ route = "none"
    /\ out = NoOut
    /\ res = "none"
    /\ just_ran = FALSE
    /\ span \in Spans
    /\ text = ""

\* The call of duration_formatter(span).
Format ==
    /\ pc = "format"
    /\ text' = Chars(duration_formatter(span))
    /\ pc' = "formatted"
    /\ UNCHANGED <<now, slept, store, stored_time, wake_up_time, current_time,
                   msg, route, out, res, just_ran, span>>

NextFormat == Format

SpecFormat == InitFormat /\ [][NextFormat]_vars

\* One process that is not interrupted, without inbound traffic, for ever:
\* the startup, then the heartbeat loop.  Time keeps passing (the sleep of
\* line 145 completes) and the runtime runs the loop body once the sleep
\* has completed.
NextBeat ==
    \/ Start
    \/ \E conn \in BOOLEAN : ReadStoredTime(conn)
    \/ \E conn \in BOOLEAN : ReadWakeUpTime(conn)
    \/ \E sendOk \in BOOLEAN, conn \in BOOLEAN : ReportPowerOffTime(sendOk, conn)
    \/ Launch
    \/ Exit
    \/ \E conn \in BOOLEAN : update_up_time(conn)
    \/ \E d \in ClockSteps : Elapse(d, BotHorizon)

SpecBeat ==
    /\ Init
    /\ [][NextBeat]_vars
    /\ WF_vars(\E d \in ClockSteps : Elapse(d, BotHorizon))
    /\ WF_vars(\E conn \in BOOLEAN : update_up_time(conn))

\* ------------------------------------------------------------------ claims
\* A step in which report_power_off_time runs from its clock read to its
\* return (Ok or Err).
ReconcilerStep == pc = "report" /\ pc' \in {"returned", "aborted"}

\* C1: whenever timeOff is strictly positive and below one minute, the
\* reconciler hands over only the brief-restart report (on-duration only)
\* and wake_up_time in the store is exactly what it was before the run; this
\* is required of every such run, so of any number of consecutive ones.
C1_BriefRestartKeepsWakeUp ==
    [][(ReconcilerStep /\ time_off' > 0 /\ time_off' < Minute)
          => /\ out'.kind = "brief"
             /\ out'.off = <<>>
             /\ out'.on = duration_formatter(stored_time - wake_up_time)
             /\ store'[WAKE_UP_TIME_KEY] = store[WAKE_UP_TIME_KEY]]_vars

\* A brief restart 30 s after the last heartbeat has returned and the stored
\* wake_up_time is still the one of the previous run.
C1_Witness ==
    /\ pc = "returned"
    /\ time_off = 30
    /\ out.kind = "brief"
    /\ store[WAKE_UP_TIME_KEY] # Nil
    /\ store[WAKE_UP_TIME_KEY] # ToRfc3339(current_time)
    /\ store[WAKE_UP_TIME_KEY] = ToRfc3339(wake_up_time)

\* C2: whenever timeOff is zero or at least one minute and both the send
\* and the store write succeed, the full report with the off- and the
\* on-duration was handed over and wake_up_time reads back as the instant
\* current_time from which timeOff was computed.
C2_FullReportAdvancesWakeUp ==
    (pc = "returned" /\ (time_off = 0 \/ time_off >= Minute))
        => /\ out.kind = "full"
           /\ out.off = duration_formatter(time_off)
           /\ out.on = duration_formatter(stored_time - wake_up_time)
           /\ Get(store, WAKE_UP_TIME_KEY, TRUE) = Ok(current_time)

\* A five-minute outage after one minute of uptime has been reported in
\* full and wake_up_time advanced.
C2_Witness ==
    /\ pc = "returned"
    /\ time_off = 5 * Minute
    /\ out = FullReport(<<<<5, "minutes">>>>, <<<<1, "minutes">>>>)
    /\ store[WAKE_UP_TIME_KEY] = ToRfc3339(current_time)
    /\ wake_up_time < current_time

\* C3 (as claimed): a negative timeOff (stored heartbeat later than now) is
\* handled as timeOff == 0: a run that returns Ok has handed over the full
\* report and advanced wake_up_time to now; it is never a brief restart.
C3_NegativeTreatedAsZero ==
    (pc = "returned" /\ time_off < 0)
        => /\ out.kind = "full"
           /\ Get(store, WAKE_UP_TIME_KEY, TRUE) = Ok(current_time)

\* C4 (as claimed): on a first-ever run (neither key in the store) a
\* reconciliation that returns Ok has computed timeOff == 0, taken the
\* full-report path and created wake_up_time, however the clock moved
\* between the reads.
C4_FirstRunCreatesWakeUp ==
    [][(pc = "report" /\ pc' = "returned"
           /\ store[POWER_ON_TIME_KEY] = Nil /\ store[WAKE_UP_TIME_KEY] = Nil)
          => /\ time_off' = 0
             /\ out'.kind = "full"
             /\ store'[WAKE_UP_TIME_KEY] # Nil]_vars

\* C5 (as claimed): a reconciler run that follows a successful run with no
\* heartbeat write, no clock movement and no store reset in between
\* computes a timeOff below one minute and, unless that is exactly zero at
\* the clock's resolution, is a brief restart that leaves wake_up_time as
\* the first run left it; so an outage the first run reported is not
\* reported again.
C5_SecondRunIsBrief ==
    [][(ReconcilerStep /\ just_ran)
          => /\ time_off' < Minute
             /\ time_off' # 0
                   => /\ out'.kind = "brief"
                      /\ store'[WAKE_UP_TIME_KEY] = store[WAKE_UP_TIME_KEY]]_vars

\* Both timestamps are in the store and both reads returned them.
BothRead ==
    /\ Get(store, POWER_ON_TIME_KEY, TRUE) = Ok(stored_time)
    /\ Get(store, WAKE_UP_TIME_KEY, TRUE) = Ok(wake_up_time)

\* C6: when both timestamps exist at startup (and are read), the reported
\* on-duration is the formatted span from the stored wake_up_time to the
\* stored power_on_time; for both equal to T and a restart at T + 5 minutes
\* the report is "off 5 minutes, on (nothing)" and wake_up_time becomes
\* T + 5 minutes.
C6_OnDurationIsStoredSpan ==
    [][(ReconcilerStep /\ BothRead)
          => /\ out'.on = duration_formatter(FromRfc3339(store[POWER_ON_TIME_KEY])
                                               - FromRfc3339(store[WAKE_UP_TIME_KEY]))
             /\ (/\ stored_time = wake_up_time
                 /\ now = stored_time + 5 * Minute
                 /\ pc' = "returned")
                   => /\ out' = FullReport(<<<<5, "minutes">>>>, <<>>)
                      /\ store'[WAKE_UP_TIME_KEY] = ToRfc3339(stored_time + 5 * Minute)]_vars

\* The scenario of C6 has run: heartbeat and wake-up both at T, restart at
\* T + 5 minutes.
C6_Witness ==
    /\ pc = "returned"
    /\ stored_time = wake_up_time
    /\ store[POWER_ON_TIME_KEY] = ToRfc3339(stored_time)
    /\ current_time = stored_time + 5 * Minute
    /\ out = FullReport(<<<<5, "minutes">>>>, <<>>)
    /\ store[WAKE_UP_TIME_KEY] = ToRfc3339(current_time)

\* verify_approval(u) on a reachable store.
IsApproved(st, u) == verify_approval(st, u, TRUE) = Ok(TRUE)

\* A step in which the dispatcher gives an inbound message to an endpoint.
DispatchStep == route = "none" /\ route' # "none"

\* A step in which admin_handler's approve_user / disapprove_user call
\* returned Ok (the acknowledgment is handed over only then).
ManageStep == DispatchStep /\ route' = "admin_handler" /\ out'.kind # "none"

\* C7: after a successful approve_user/disapprove_user call targeting v,
\* verify_approval(v) is true iff the call was approve_user, and for every
\* other user the result is what it was; a user whose flag was never written
\* is not approved.  (By induction over the calls: verify_approval(u) is true
\* iff the most recent call targeting u was approve_user(u).)
C7_ApprovalStateMachine ==
    [][/\ \A u \in Users : store[UserKey(u)] = Nil => ~IsApproved(store, u)
       /\ ManageStep
             => \A u \in Users :
                    IsApproved(store', u) =
                        IF u = msg'.target THEN msg'.cmd = "approve"
                        ELSE IsApproved(store, u)]_vars

\* User 2 was approved and then disapproved, while the administrator's own
\* flag, approved earlier, is untouched; a disapprove has just been handled.
C7_Witness ==
    /\ route = "admin_handler"
    /\ msg.cmd = "disapprove"
    /\ msg.target = 2
    /\ out = DisapprovedAck
    /\ ~IsApproved(store, 2)
    /\ store[UserKey(2)] = Token("disapproved")
    /\ IsApproved(store, admin_user_id)

\* C8 (as claimed): a status command from a sender who is neither approved
\* (flag absent or disapproved) nor the administrator always gets the fixed
\* refusal and never a status reply, whatever the message age and the store
\* contents.
C8_UnapprovedAlwaysRefused ==
    (/\ route = "handler"
     /\ msg.sender \in Users
     /\ msg.sender # admin_user_id
     /\ ~IsApproved(store, msg.sender))
        => out = Refusal

\* C9 (as claimed): when reading the approval flag fails, a non-administrator
\* sender gets the fixed refusal, and the administrator is still authorized:
\* the status command is carried out for it.
C9_FailClosedRefuses ==
    [][\A m \in Messages(now), getConn \in BOOLEAN, sendOk \in BOOLEAN :
          (Dispatch(m, FALSE, getConn, sendOk) /\ m.cmd = "status" /\ m.sender \in Users)
              => out' = IF m.sender = admin_user_id
                        THEN status(store, m, now, getConn, sendOk).out
                        ELSE Refusal]_vars

\* The approval flags of all users.
Flags(st) == [u \in Users |-> st[UserKey(u)]]

\* C10: handling an inbound message whose sender is not the administrator
\* modifies no approval flag, and if it is an approve/disapprove command no
\* branch matches: nothing (acknowledgment or refusal) is sent.  The only
\* program step that changes a flag is admin_handler on a message of the
\* administrator (the store being reset from outside is no program step).
C10_OnlyAdminChangesFlags ==
    [][/\ (DispatchStep /\ msg'.sender # admin_user_id)
             => /\ Flags(store') = Flags(store)
                /\ msg'.cmd \in {"approve", "disapprove"}
                      => (route' = "unhandled" /\ out' = NoOut)
       /\ (Flags(store') # Flags(store) /\ store' # EmptyStore)
             => /\ route' = "admin_handler"
                /\ msg'.sender = admin_user_id
                /\ msg'.cmd \in {"approve", "disapprove"}]_vars

\* User 2 has sent "approve 2": no branch matched, nothing was sent and
\* user 2 is still not approved.
C10_Witness ==
    /\ route = "unhandled"
    /\ msg.sender = 2
    /\ msg.cmd = "approve"
    /\ msg.target = 2
    /\ out = NoOut
    /\ ~IsApproved(store, 2)

\* The sender may use the status command: its flag is "approved" or it is
\* the administrator.
Authorized(st, u) == u \in Users /\ (IsApproved(st, u) \/ u = admin_user_id)

\* C11: a status command of an authorized sender whose message is more than
\* one minute older than the current time gets no reply at all and writes
\* nothing to the store.
C11_StaleStatusIsSilent ==
    [][(/\ DispatchStep
        /\ msg'.cmd = "status"
        /\ Authorized(store, msg'.sender)
        /\ now - msg'.date > Minute)
          => (out' = NoOut /\ store' = store)]_vars

\* The approved user 2 has sent a status command 90 seconds ago; the
\* resumption time is stored and differs from now, so a fresh query would
\* have been answered; nothing was sent.
C11_Witness ==
    /\ route = "handler"
    /\ msg.cmd = "status"
    /\ msg.sender = 2
    /\ IsApproved(store, 2)
    /\ now - msg.date = Minute + 30
    /\ ParsesAsRfc3339(store[WAKE_UP_TIME_KEY])
    /\ FromRfc3339(store[WAKE_UP_TIME_KEY]) # now
    /\ res = "ok"
    /\ out = NoOut

\* C12 (as claimed): every status command of an authorized sender whose
\* message is not stale is answered with the "Light is on for" reply, and
\* when wake_up_time is stored the duration in it is now - wake_up_time;
\* this includes the states where the key is absent and the queries whose
\* read of it fails.  The flag read succeeds here; the query made at the
\* very instant stored as wake_up_time, and the store that holds nothing (as
\* after a reset from outside), are left aside.
C12_FreshStatusAnswered ==
    [][\A m \in Messages(now), getConn \in BOOLEAN, sendOk \in BOOLEAN :
          (/\ Dispatch(m, TRUE, getConn, sendOk)
           /\ m.cmd = "status"
           /\ Authorized(store, m.sender)
           /\ ~(now - m.date > Minute)
           /\ store[WAKE_UP_TIME_KEY] # ToRfc3339(now)
           /\ store # EmptyStore)
             => /\ out'.kind = "status"
                /\ ParsesAsRfc3339(store[WAKE_UP_TIME_KEY])
                      => out'.on = duration_formatter(
                                       now - FromRfc3339(store[WAKE_UP_TIME_KEY]))]_vars

\* The order in which one process run goes through startup; from any point
\* a power loss leads to "down".
StartupOrder ==
    {<<"down", "get_stored">>, <<"get_stored", "get_wake">>, <<"get_wake", "report">>,
     <<"report", "returned">>, <<"report", "aborted">>,
     <<"returned", "running">>, <<"aborted", "down">>}
Reconciling == pc \in {"get_stored", "get_wake", "report"}

\* C13: startup has two phases.  The reconciler runs once per process start
\* (the run goes down the startup order and never back), the concurrent
\* phase is entered only from the reconciler's Ok return, i.e. after its
\* wake_up_time write if it made one; the heartbeat is written and inbound
\* messages are handled only in the concurrent phase; and while the
\* reconciler is between its first read and its return no message is
\* handled and nothing but the reconciler's own wake_up_time write changes
\* the store.
C13_ReconcileBeforeConcurrent ==
    [][/\ pc' # pc => (<<pc, pc'>> \in StartupOrder \/ pc' = "down")
       /\ (pc' = "running" /\ pc # "running")
             => /\ pc = "returned" /\ res = "ok"
                /\ out.kind = "full" => store[WAKE_UP_TIME_KEY] = ToRfc3339(current_time)
       /\ (store'[POWER_ON_TIME_KEY] # store[POWER_ON_TIME_KEY] /\ store' # EmptyStore)
             => (pc = "running" /\ pc' = "running")
       /\ DispatchStep => (pc = "running" /\ pc' = "running")
       /\ (Reconciling \/ pc \in {"returned", "aborted"})
             => /\ route' = "none"
                /\ \A k \in Keys \ {WAKE_UP_TIME_KEY} : store'[k] = store[k]
                /\ store'[WAKE_UP_TIME_KEY] # store[WAKE_UP_TIME_KEY] => ReconcilerStep]_vars

\* The concurrent phase of a run whose reconciler wrote wake_up_time: the
\* first heartbeat of the run has been written after it, and a message is
\* being handled.
C13_Witness ==
    /\ pc = "running"
    /\ route = "handler"
    /\ ParsesAsRfc3339(store[WAKE_UP_TIME_KEY])
    /\ ParsesAsRfc3339(store[POWER_ON_TIME_KEY])
    /\ FromRfc3339(store[POWER_ON_TIME_KEY]) = FromRfc3339(store[WAKE_UP_TIME_KEY]) + SleepSecs
    /\ out.kind = "status"

\* C14: when sending the startup report fails, or when the wake_up_time
\* write after a successful send fails, report_power_off_time returns Err;
\* a failed send leaves the store (hence wake_up_time) as it was.  From the
\* Err return the process only exits: it never enters the concurrent phase,
\* so in that run no heartbeat is written and no command is handled.
C14_StartupFailureAborts ==
    [][/\ \A sendOk \in BOOLEAN, conn \in BOOLEAN :
             (/\ ReportPowerOffTime(sendOk, conn)
              /\ (~sendOk \/ (~conn /\ ~IsBriefRestart(now - stored_time))))
                => /\ pc' = "aborted"
                   /\ res' = "err"
                   /\ ~sendOk => store' = store
       /\ pc = "aborted"
             => /\ pc' = "down"
                /\ store' = store
                /\ route' = "none"]_vars

\* report_power_off_time has returned Err on the full path (the send or the
\* write failed) with a resumption time in the store that is not this run's.
C14_Witness ==
    /\ pc = "aborted"
    /\ res = "err"
    /\ out.kind = "full"
    /\ ParsesAsRfc3339(store[WAKE_UP_TIME_KEY])
    /\ store[WAKE_UP_TIME_KEY] # ToRfc3339(current_time)

\* The sleep of update_up_time has completed and its write is due.
BeatDue == pc = "running" /\ slept = SleepSecs
\* update_up_time has just attempted its write and sleeps again (in the
\* concurrent phase only update_up_time sets res while no message is routed).
BeatAttempted == pc = "running" /\ slept = 0 /\ route = "none" /\ res \in {"ok", "err"}
\* ... and the write succeeded: the heartbeat in the store is the current time.
BeatWritten == BeatAttempted /\ res = "ok" /\ store[POWER_ON_TIME_KEY] = ToRfc3339(now)

\* C15: a heartbeat write that fails leaves the store as it was and leaves
\* the loop running; once the concurrent phase has started, every tick comes
\* due and a write is attempted at it, for ever; and if from some point on
\* no write fails, the heartbeat is written at every tick, for ever.
C15_HeartbeatForever ==
    /\ [][update_up_time(FALSE) => (store' = store /\ pc' = "running")]_vars
    /\ (pc = "running") ~> BeatDue
    /\ BeatDue ~> BeatAttempted
    /\ (<>[](res # "err")) => (BeatDue ~> BeatWritten)

\* A heartbeat write has just failed: the heartbeat in the store is still
\* the one written a minute earlier, and the loop sleeps again.
C15_Witness ==
    /\ pc = "running"
    /\ route = "none"
    /\ res = "err"
    /\ slept = 0
    /\ ParsesAsRfc3339(store[POWER_ON_TIME_KEY])
    /\ FromRfc3339(store[POWER_ON_TIME_KEY]) = now - SleepSecs

\* C16: an endpoint that returns Err for one message stops neither the
\* dispatcher nor update_up_time.  The handling of a message does not touch
\* the sleep of update_up_time; after an Err the process is still in the
\* concurrent phase, the dispatcher can go on to the next update and a due
\* heartbeat write can run; and whenever the dispatcher is idle in the
\* concurrent phase every message can be dispatched.
C16_HandlerErrorIsolated ==
    /\ [][/\ (DispatchStep /\ res' = "err") => (pc' = "running" /\ slept' = slept)
          /\ (route # "none" /\ res = "err") => (pc' = "running" /\ route' = "none")]_vars
    /\ []((pc = "running" /\ route # "none" /\ res = "err")
             => /\ ENABLED Handled
                /\ slept = SleepSecs => ENABLED update_up_time(TRUE))
    /\ []((pc = "running" /\ route = "none")
             => /\ \A m \in Messages(now) : ENABLED Dispatch(m, TRUE, TRUE, TRUE)
                /\ slept = SleepSecs => ENABLED update_up_time(TRUE))

\* The sending of the refusal to user 2 has failed, handler has returned the
\* error, and a heartbeat write is due.
C16_Witness ==
    /\ pc = "running"
    /\ route = "handler"
    /\ msg.sender = 2
    /\ out = Refusal
    /\ res = "err"
    /\ slept = SleepSecs

\* "<N> <unit> " if the component N is not zero, nothing otherwise.
Component(n, unit) == IF n = 0 THEN "" ELSE ToString(n) \o " " \o unit \o " "

\* C17: for every span of whole seconds from 0 up to MaxDays days and
\* 23:59:59, duration_formatter returns the concatenation, in the order
\* days, hours, minutes, seconds, of "<N> <unit> " for exactly the non-zero
\* components of the span; in particular "" for 0, "1 hours 30 minutes " for
\* 90 minutes and "1 days 1 hours " for 25 hours.
C17_FormatIsComponents ==
    pc = "formatted"
       => /\ text = Component(span \div 86400, "days")
                       \o Component((span % 86400) \div 3600, "hours")
                       \o Component((span % 3600) \div 60, "minutes")
                       \o Component(span % 60, "seconds")
          /\ span = 0 => text = ""
          /\ span = 90 * 60 => text = "1 hours 30 minutes "
          /\ span = 25 * 3600 => text = "1 days 1 hours "

\* duration_formatter has been called with 25 hours and has returned
\* "1 days 1 hours ".
C17_Witness ==
    /\ pc = "formatted"
    /\ span = 25 * 3600
    /\ text = "1 days 1 hours "

\* A step of update_up_time: its sleep has completed and it sleeps again.
HeartbeatStep == pc = "running" /\ slept = SleepSecs /\ pc' = "running" /\ slept' = 0

\* C18: no step of the concurrent phase changes wake_up_time; power_on_time
\* is changed by the step of update_up_time only, not by the reconciler and
\* not by the handling of a message; and an approve/disapprove command that
\* is carried out changes nothing in the store but the flag of its target.
\* (The store being emptied from outside is no step of the program.)
C18_Frame ==
    [][/\ (pc = "running" /\ pc' = "running" /\ store' # EmptyStore)
             => store'[WAKE_UP_TIME_KEY] = store[WAKE_UP_TIME_KEY]
       /\ (store'[POWER_ON_TIME_KEY] # store[POWER_ON_TIME_KEY] /\ store' # EmptyStore)
             => (HeartbeatStep /\ ~DispatchStep /\ ~ReconcilerStep)
       /\ ReconcilerStep => store'[POWER_ON_TIME_KEY] = store[POWER_ON_TIME_KEY]
       /\ DispatchStep
             => /\ store'[POWER_ON_TIME_KEY] = store[POWER_ON_TIME_KEY]
                /\ store'[WAKE_UP_TIME_KEY] = store[WAKE_UP_TIME_KEY]
       /\ ManageStep
             => \A k \in Keys \ {UserKey(msg'.target)} : store'[k] = store[k]]_vars

\* The administrator's "disapprove 2" has been carried out on a store that
\* holds both timestamps and the flag of the administrator.
C18_Witness ==
    /\ route = "admin_handler"
    /\ msg.cmd = "disapprove"
    /\ msg.target = 2
    /\ res = "ok"
    /\ store[UserKey(2)] = Token("disapproved")
    /\ store[UserKey(admin_user_id)] # Nil
    /\ ParsesAsRfc3339(store[POWER_ON_TIME_KEY])
    /\ ParsesAsRfc3339(store[WAKE_UP_TIME_KEY])

\* C19 (as claimed): under normal operation the on-duration that
\* report_power_off_time computes is not negative.  Stated for the runs that
\* find both timestamps in the store, which include the restart after a
\* full reconciliation and before the first heartbeat write.
C19_TimeOnNonNegative ==
    [][(ReconcilerStep /\ BothRead) => time_light_was_on' >= 0]_vars

====
